---- MODULE Spec2Model ----
(***************************************************************************)
(* The Knex-like query-builder shim over the Supabase client               *)
(* (src/backend/routes/auth/auth/logout.js, lines 11-219).                 *)
(*                                                                         *)
(* One query builder (the object createQueryBuilder returns) is modelled   *)
(* with its fields _table, _wheres, _orders, _limit, _offset, _inserts and *)
(* _updates.  The Supabase client is the environment: every request the    *)
(* shim builds is recorded in `sent`, and the client's answer is chosen    *)
(* nondeterministically from Replies.  `called`, `reply` and `outcome`     *)
(* describe the most recent API call; `calls` is a history variable that   *)
(* summarises the calls made on the builder since it was created.          *)
(*                                                                         *)
(* JavaScript values: null/undefined is None (the empty tuple), any other  *)
(* value x of an optional field is Some(x) (the one-element tuple).        *)
(***************************************************************************)
EXTENDS Integers, Sequences, FiniteSets, TLC

VARIABLES _table, _wheres, _orders, _limit, _offset, _inserts, _updates,
          called, sent, reply, outcome, calls, console

builder == <<_table, _wheres, _orders, _limit, _offset, _inserts, _updates>>
vars == <<_table, _wheres, _orders, _limit, _offset, _inserts, _updates,
          called, sent, reply, outcome, calls, console>>

None == <<>>
Some(x) == <<x>>

(***************************************************************************)
(* Bounds of the model and the inputs the calls are drawn from.            *)
(***************************************************************************)
MaxWheres == 2
MaxOrders == 2
MaxLog == 2

Tables == {"users"}
WhereFields == {"id", "email"}
WhereValues == {1}
OrderFields == {"created_at"}
Directions == {"asc", "desc"}
Limits == {0, 5, 10}
Offsets == {0, 20}
Columns == {"id"}
Payloads == {[name |-> "x"]}
Errors == {"permission denied", "fetch failed"}
Row1 == [id |-> 11, name |-> "x"]
Row2 == [id |-> 12, name |-> "y"]
DataValues == {None, Some(<<>>), Some(<<Row1, Row2>>)}
SqlStrings == {"SELECT 1", "select 1", "SELECT 1;", "DROP TABLE users"}
Events == {"error", "connect"}
SchemaTables == {"users", "missing"}

(***************************************************************************)
(* What the Supabase client can answer to an awaited query: a resolved     *)
(* {data, error} object, or a rejection (the await throws).                *)
(***************************************************************************)
Replies ==
    {[kind |-> "resolved", data |-> d, error |-> None] : d \in DataValues}
    \cup {[kind |-> "resolved", data |-> None, error |-> Some(e)] : e \in Errors}
    \cup {[kind |-> "rejected", data |-> None, error |-> Some(e)] : e \in Errors}

NoReply == [kind |-> "none", data |-> None, error |-> None]

(***************************************************************************)
(* JavaScript values a call settles with, tagged by type so that null, an  *)
(* empty array and a row stay distinct.                                    *)
(***************************************************************************)
JsNull == [type |-> "null"]
JsThis == [type |-> "this"]
JsArray(items) == [type |-> "array", items |-> items]
JsObject(fields) == [type |-> "object", fields |-> fields]
JsNumber(n) == [type |-> "number", n |-> n]
JsBool(b) == [type |-> "boolean", b |-> b]

Return(v) == [kind |-> "return", value |-> v]
Throw(e) == [kind |-> "throw", value |-> e]

(***************************************************************************)
(* A request as the Supabase query builder accumulates it: the verb and    *)
(* its argument, and the filter/modifier calls made on it, in call order.  *)
(***************************************************************************)
Query(table, verb, arg) ==
    [table |-> table, verb |-> verb, arg |-> arg, returning |-> FALSE,
     eq |-> <<>>, order |-> <<>>, limit |-> <<>>, range |-> <<>>]

(***************************************************************************)
(* History of the calls made on the builder since db(tableName) made it:   *)
(* the arguments of the where and orderBy calls in call order, the         *)
(* argument of the last limit and of the last offset call, whether first() *)
(* was called after the last limit call, and whether a terminal call was   *)
(* made never, once, or again.                                             *)
(***************************************************************************)
NoCalls == [wheres |-> <<>>, orders |-> <<>>, limit |-> None, offset |-> None,
            first |-> FALSE, executed |-> "never"]

Init ==
    /\ _table = None
    /\ _wheres = <<>>
    /\ _orders = <<>>
    /\ _limit = None
    /\ _offset = None
    /\ _inserts = None
    /\ _updates = None
    /\ called = [op |-> "none", args |-> <<>>]
    /\ sent = <<>>
    /\ reply = NoReply
    /\ outcome = [kind |-> "none", value |-> JsNull]
    /\ calls = NoCalls
    /\ console = <<>>

(***************************************************************************)
(* db(tableName) / createQueryBuilder(tableName): a fresh builder.         *)
(***************************************************************************)
createQueryBuilder(tableName) ==
    /\ _table' = Some(tableName)
    /\ _wheres' = <<>>
    /\ _orders' = <<>>
    /\ _limit' = None
    /\ _offset' = None
    /\ _inserts' = None
    /\ _updates' = None

db(tableName) ==
    /\ createQueryBuilder(tableName)
    /\ called' = [op |-> "db", args |-> <<tableName>>]
    /\ sent' = <<>>
    /\ reply' = NoReply
    /\ outcome' = Return(JsThis)
    /\ calls' = NoCalls
    /\ UNCHANGED console

(***************************************************************************)
(* The chaining methods: each mutates one field and returns the builder.   *)
(***************************************************************************)
Chained(op, args) ==
    /\ _table # None
    /\ called' = [op |-> op, args |-> args]
    /\ sent' = <<>>
    /\ reply' = NoReply
    /\ outcome' = Return(JsThis)
    /\ UNCHANGED <<_table, _inserts, _updates, console>>

\* a where that puts the newest predicate first
PushWhereFront(field, value) == <<<<field, value>>>> \o _wheres

PushWhere(field, value) == Append(_wheres, <<field, value>>)

where(field, value) ==
    /\ Len(_wheres) < MaxWheres
    /\ Chained("where", <<field, value>>)
    /\ _wheres' = PushWhere(field, value)
    /\ calls' = [calls EXCEPT !.wheres = Append(@, <<field, value>>)]
    /\ UNCHANGED <<_orders, _limit, _offset>>

PushOrder(field, direction) == Append(_orders, <<field, direction>>)

orderBy(field, direction) ==
    /\ Len(_orders) < MaxOrders
    /\ Chained("orderBy", <<field, direction>>)
    /\ _orders' = PushOrder(field, direction)
    /\ calls' = [calls EXCEPT !.orders = Append(@, <<field, direction>>)]
    /\ UNCHANGED <<_wheres, _limit, _offset>>

\* orderBy(field): the direction parameter defaults to 'asc' (line 36)
DefaultDirection == "asc"

orderByDefault(field) == orderBy(field, DefaultDirection)

\* a limit that keeps the first value set
SetLimitOnce(n) == IF _limit = None THEN Some(n) ELSE _limit

SetLimit(n) == Some(n)

limit(n) ==
    /\ Chained("limit", <<n>>)
    /\ _limit' = SetLimit(n)
    /\ calls' = [calls EXCEPT !.limit = Some(n), !.first = FALSE]
    /\ UNCHANGED <<_wheres, _orders, _offset>>

SetOffset(n) == Some(n)

offset(n) ==
    /\ Chained("offset", <<n>>)
    /\ _offset' = SetOffset(n)
    /\ calls' = [calls EXCEPT !.offset = Some(n)]
    /\ UNCHANGED <<_wheres, _orders, _limit>>

(***************************************************************************)
(* Execution.  A terminal call builds one Supabase query, awaits it once   *)
(* and settles with what the reply gives.                                  *)
(***************************************************************************)
\* a terminal call that consumes the accumulated predicates
ExecutedConsumes(op, args, query, rep, out) ==
    /\ _table # None
    /\ called' = [op |-> op, args |-> args]
    /\ sent' = <<query>>
    /\ reply' = rep
    /\ outcome' = out
    /\ calls' = [calls EXCEPT
                    !.executed = IF @ = "never" THEN "once" ELSE "again",
                    !.first = IF op = "first" THEN TRUE ELSE @]
    /\ _wheres' = <<>>
    /\ UNCHANGED <<_table, _orders, _offset, console>>

Executed(op, args, query, rep, out) ==
    /\ _table # None
    /\ called' = [op |-> op, args |-> args]
    /\ sent' = <<query>>
    /\ reply' = rep
    /\ outcome' = out
    /\ calls' = [calls EXCEPT
                    !.executed = IF @ = "never" THEN "once" ELSE "again",
                    !.first = IF op = "first" THEN TRUE ELSE @]
    /\ UNCHANGED <<_table, _wheres, _orders, _offset, console>>

\* for (const where of this._wheres) query = query.eq(where.field, where.value)
ApplyWheres(query, wheres) == [query EXCEPT !.eq = @ \o wheres]

\* an ordering that honours the last directive instead of the first
ApplyLastOrder(query, orders) ==
    IF Len(orders) > 0
    THEN [query EXCEPT !.order =
             Append(@, [field |-> orders[Len(orders)][1],
                        ascending |-> orders[Len(orders)][2] = "asc"])]
    ELSE query

\* if (this._orders.length > 0) query.order(field, { ascending: direction === 'asc' })
ApplyOrder(query, orders) ==
    IF Len(orders) > 0
    THEN [query EXCEPT !.order =
             Append(@, [field |-> orders[1][1], ascending |-> orders[1][2] = "asc"])]
    ELSE query

\* if (this._limit !== null) query.limit(this._limit)
ApplyLimit(query, lim) ==
    IF lim # None THEN [query EXCEPT !.limit = Append(@, lim[1])] ELSE query

DefaultWindow == 1000

\* (this._limit || 1000): null and 0 are both falsy
Window(lim) == IF lim = None \/ lim[1] = 0 THEN DefaultWindow ELSE lim[1]

\* if (this._offset !== null) query.range(offset, offset + (limit || 1000) - 1)
ApplyRange(query, lim, off) ==
    IF off # None
    THEN [query EXCEPT !.range = Append(@, <<off[1], off[1] + Window(lim) - 1>>)]
    ELSE query

\* a check that forgets the error field of a resolved reply
FailureRejectedOnly(rep) == IF rep.kind = "rejected" THEN rep.error ELSE None

\* the error the awaited query ends with, if any: a rejection, or a truthy
\* error field (if (error) throw error)
Failure(rep) ==
    IF rep.kind = "rejected" \/ rep.error # None THEN rep.error ELSE None

SelectQuery(table, wheres, orders, lim, off, columns) ==
    ApplyRange(
        ApplyLimit(
            ApplyOrder(
                ApplyWheres(Query(table, "select", Some(columns)), wheres),
                orders),
            lim),
        lim, off)

\* return data || []
SelectResult(rep) ==
    IF Failure(rep) # None THEN Throw(Failure(rep)[1])
    ELSE Return(JsArray(IF rep.data = None THEN <<>> ELSE rep.data[1]))

_runSelect(op, args, lim, columns) ==
    \E rep \in Replies :
        Executed(op, args,
                 SelectQuery(_table[1], _wheres, _orders, lim, _offset, columns),
                 rep, SelectResult(rep))

DefaultColumns == "*"

select(columns) ==
    /\ _runSelect("select", <<columns>>, _limit, columns)
    /\ UNCHANGED <<_limit, _inserts, _updates>>

\* select() without an argument: columns = '*'
selectDefault ==
    /\ _runSelect("select", <<>>, _limit, DefaultColumns)
    /\ UNCHANGED <<_limit, _inserts, _updates>>

\* queryBuilder.then: awaiting the builder itself runs _runSelect()
then ==
    /\ _runSelect("then", <<>>, _limit, DefaultColumns)
    /\ UNCHANGED <<_limit, _inserts, _updates>>

\* data => data[0], without the fallback to null
FirstResultNoNull(selected) ==
    IF selected.kind = "throw" THEN selected
    ELSE IF Len(selected.value.items) > 0
         THEN Return(JsObject(selected.value.items[1]))
         ELSE Return(JsArray(<<>>))

\* data => data[0] || null
FirstResult(selected) ==
    IF selected.kind = "throw" THEN selected
    ELSE IF Len(selected.value.items) > 0
         THEN Return(JsObject(selected.value.items[1]))
         ELSE Return(JsNull)

FirstLimit == 1

first ==
    /\ _limit' = Some(FirstLimit)
    /\ \E rep \in Replies :
           Executed("first", <<>>,
                    SelectQuery(_table[1], _wheres, _orders, _limit', _offset,
                                DefaultColumns),
                    rep, FirstResult(SelectResult(rep)))
    /\ UNCHANGED <<_inserts, _updates>>

InsertQuery(table, data) ==
    [Query(table, "insert", data) EXCEPT !.returning = TRUE]

\* a map that yields the ids last row first
IdsReversed(rows) == [i \in 1..Len(rows) |-> rows[Len(rows) + 1 - i].id]

Ids(rows) == [i \in 1..Len(rows) |-> rows[i].id]

\* return data?.map(item => item.id) || []
InsertResult(rep) ==
    IF Failure(rep) # None THEN Throw(Failure(rep)[1])
    ELSE Return(JsArray(IF rep.data = None THEN <<>> ELSE Ids(rep.data[1])))

insert(data) ==
    /\ _inserts' = Some(data)
    /\ \E rep \in Replies :
           Executed("insert", <<data>>, InsertQuery(_table[1], _inserts'),
                    rep, InsertResult(rep))
    /\ UNCHANGED <<_limit, _updates>>

UpdateQuery(table, wheres, data) ==
    ApplyWheres(Query(table, "update", data), wheres)

\* return data ? 1 : 0
UpdateResult(rep) ==
    IF Failure(rep) # None THEN Throw(Failure(rep)[1])
    ELSE Return(JsNumber(IF rep.data # None THEN 1 ELSE 0))

update(data) ==
    /\ _updates' = Some(data)
    /\ \E rep \in Replies :
           Executed("update", <<data>>, UpdateQuery(_table[1], _wheres, _updates'),
                    rep, UpdateResult(rep))
    /\ UNCHANGED <<_limit, _inserts>>

DeleteQuery(table, wheres) ==
    ApplyWheres(Query(table, "delete", None), wheres)

\* return 1
DeleteResult(rep) ==
    IF Failure(rep) # None THEN Throw(Failure(rep)[1])
    ELSE Return(JsNumber(1))

delete ==
    /\ \E rep \in Replies :
           Executed("delete", <<>>, DeleteQuery(_table[1], _wheres),
                    rep, DeleteResult(rep))
    /\ UNCHANGED <<_limit, _inserts, _updates>>

(***************************************************************************)
(* The module-level functions of db: raw, schema.*, destroy and on.  None  *)
(* of them touches a builder.  A console.log line is a tuple of its parts. *)
(***************************************************************************)
DbCalled(op, args, requests, rep, out) ==
    /\ called' = [op |-> op, args |-> args]
    /\ sent' = requests
    /\ reply' = rep
    /\ outcome' = out
    /\ UNCHANGED <<builder, calls>>

Log(line) ==
    /\ Len(console) < MaxLog
    /\ console' = Append(console, line)

Select1 == "SELECT 1"

\* [{ '1': 1 }]
Select1Result == JsArray(<<("1" :> 1)>>)

\* [{ message: 'Raw SQL queries are not directly supported with Supabase' }]
Unsupported ==
    JsArray(<<[message |-> "Raw SQL queries are not directly supported with Supabase"]>>)

\* a raw that also interprets "SELECT 1;"
RawResultLenient(sql) ==
    IF sql \in {Select1, "SELECT 1;"} THEN Select1Result ELSE Unsupported

RawResult(sql) == IF sql = Select1 THEN Select1Result ELSE Unsupported

raw(sql) ==
    /\ IF sql = Select1
       THEN UNCHANGED console
       ELSE Log(<<"[SUPABASE SHIM] Raw SQL not directly supported: ", sql>>)
    /\ DbCalled("raw", <<sql>>, <<>>, NoReply, Return(RawResult(sql)))

\* supabase.from(tableName).select('count').limit(1)
HasTableQuery(tableName) ==
    [Query(tableName, "select", Some("count")) EXCEPT !.limit = <<1>>]

\* a probe without the try/catch
HasTableResultNoCatch(rep) ==
    IF rep.kind = "rejected" THEN Throw(rep.error[1])
    ELSE Return(JsBool(rep.error = None))

\* try { ...; return !error } catch (error) { return false }
HasTableResult(rep) ==
    IF rep.kind = "rejected" THEN Return(JsBool(FALSE))
    ELSE Return(JsBool(rep.error = None))

hasTable(tableName) ==
    /\ \E rep \in Replies :
           DbCalled("hasTable", <<tableName>>, <<HasTableQuery(tableName)>>, rep,
                    HasTableResult(rep))
    /\ UNCHANGED console

createTable(tableName) ==
    /\ Log(<<"[SUPABASE SHIM] Creating tables not supported: ", tableName>>)
    /\ DbCalled("createTable", <<tableName>>, <<>>, NoReply, Return(JsBool(TRUE)))

dropTable(tableName) ==
    /\ Log(<<"[SUPABASE SHIM] Dropping tables not supported: ", tableName>>)
    /\ DbCalled("dropTable", <<tableName>>, <<>>, NoReply, Return(JsBool(TRUE)))

destroy ==
    /\ Log(<<"[SUPABASE SHIM] Connection closed">>)
    /\ DbCalled("destroy", <<>>, <<>>, NoReply, Return(JsBool(TRUE)))

JsDb == [type |-> "db"]

on(event) ==
    /\ IF event = "error"
       THEN Log(<<"[SUPABASE SHIM] Registered error handler">>)
       ELSE UNCHANGED console
    /\ DbCalled("on", <<event>>, <<>>, NoReply, Return(JsDb))

(***************************************************************************)
(* Specifications.                                                         *)
(*   Spec     every method of a builder; orderBy with its default          *)
(*            direction, one limit and one offset argument.                *)
(*   SpecRead the read path (where/orderBy/limit/offset, then              *)
(*            select/await/first) with the wider argument sets.            *)
(*   SpecDb   the functions of db itself.                                  *)
(***************************************************************************)
Next ==
    \/ \E t \in Tables : db(t)
    \/ \E f \in WhereFields, v \in WhereValues : where(f, v)
    \/ \E f \in OrderFields : orderByDefault(f)
    \/ limit(10)
    \/ offset(20)
    \/ selectDefault
    \/ then
    \/ first
    \/ \E p \in Payloads : insert(p)
    \/ \E p \in Payloads : update(p)
    \/ delete

Spec == Init /\ [][Next]_vars

NextRead ==
    \/ \E t \in Tables : db(t)
    \/ \E f \in WhereFields, v \in WhereValues : where(f, v)
    \/ \E f \in OrderFields, d \in Directions : orderBy(f, d)
    \/ \E f \in OrderFields : orderByDefault(f)
    \/ \E n \in Limits : limit(n)
    \/ \E n \in Offsets : offset(n)
    \/ \E c \in Columns : select(c)
    \/ then
    \/ first

SpecRead == Init /\ [][NextRead]_vars

NextDb ==
    \/ \E sql \in SqlStrings : raw(sql)
    \/ \E t \in SchemaTables : hasTable(t)
    \/ \E t \in SchemaTables : createTable(t)
    \/ \E t \in SchemaTables : dropTable(t)
    \/ destroy
    \/ \E e \in Events : on(e)

SpecDb == Init /\ [][NextDb]_vars

(***************************************************************************)
(* Properties.                                                             *)
(***************************************************************************)
ReadOps == {"select", "then", "first"}
TerminalOps == ReadOps \cup {"insert", "update", "delete"}
Failed == reply.kind = "rejected" \/ reply.error # None

\* C1: a read (select, first, await) sends exactly one equality filter per
\* where call made on the builder, with the same (field, value), in the order
\* the where calls were made, and no other equality filter.
C1_WhereFiltersInCallOrder ==
    called.op \in ReadOps => Len(sent) = 1 /\ sent[1].eq = calls.wheres

\* two different predicates, interleaved with orderBy and limit, then a read
C1_Witness ==
    /\ called.op \in ReadOps
    /\ Len(calls.wheres) = 2
    /\ calls.wheres[1] # calls.wheres[2]
    /\ calls.orders # <<>>
    /\ calls.limit # None
    /\ sent[1].eq = <<calls.wheres[1], calls.wheres[2]>>

\* C2 (as claimed): with an offset o set, a read sends range [o, o + L - 1],
\* L being the limit when one is set (0 included) and 1000 otherwise; with no
\* offset set it sends no range.
C2_RangeUsesSetLimit ==
    called.op \in ReadOps =>
        sent[1].range =
            IF _offset = None THEN <<>>
            ELSE <<<<_offset[1],
                     _offset[1] + (IF _limit = None THEN 1000 ELSE _limit[1]) - 1>>>>

\* C3: first() sends a read whose limit is 1 whatever limit was set before,
\* and when the remote succeeds it returns the first row, or null when the
\* remote gave zero rows or no data: never an error, never an empty sequence.
C3_FirstRowOrNull ==
    called.op = "first" =>
        /\ sent[1].limit = <<1>>
        /\ ~Failed =>
               outcome = IF reply.data # None /\ reply.data[1] # <<>>
                         THEN Return(JsObject(reply.data[1][1]))
                         ELSE Return(JsNull)

\* limit(10) was the last limit call, first() got zero rows and returned null
C3_Witness ==
    /\ called.op = "first"
    /\ calls.limit = Some(10)
    /\ sent[1].limit = <<1>>
    /\ reply.data = Some(<<>>)
    /\ outcome = Return(JsNull)

\* C4: a read sends exactly one order call when orderBy was called, carrying
\* the field and direction of the first orderBy call (ascending exactly when
\* that direction is 'asc'); later orderBy calls stay recorded in _orders and
\* are not applied; with no orderBy call no order call is sent.
C4_FirstOrderOnly ==
    /\ _orders = calls.orders
    /\ called.op \in ReadOps =>
           sent[1].order =
               IF calls.orders = <<>> THEN <<>>
               ELSE <<[field |-> calls.orders[1][1],
                       ascending |-> calls.orders[1][2] = "asc"]>>

\* orderBy(f, 'desc') then orderBy(f): the read orders descending
C4_Witness ==
    /\ called.op \in ReadOps
    /\ Len(calls.orders) = 2
    /\ calls.orders[1][2] = "desc"
    /\ calls.orders[2][2] = "asc"
    /\ Len(sent[1].order) = 1
    /\ ~sent[1].order[1].ascending

\* C5: a terminal call sends exactly one remote request, and when the remote
\* answers with an error it fails with exactly that error.
C5_ErrorPropagatedOnce ==
    called.op \in TerminalOps =>
        /\ Len(sent) = 1
        /\ Failed => outcome = Throw(reply.error[1])

\* update got {error} back from the remote and threw it
C5_Witness ==
    /\ called.op = "update"
    /\ reply.kind = "resolved"
    /\ reply.error = Some("permission denied")
    /\ outcome = Throw("permission denied")
    /\ Len(sent) = 1

\* C6: insert on remote success returns the ids of the rows the remote echoes
\* back, one per row in the same order, and an empty sequence when the remote
\* returns no rows (empty or absent data).
C6_InsertReturnsIds ==
    (called.op = "insert" /\ ~Failed) =>
        outcome = Return(JsArray(
            IF reply.data = None THEN <<>>
            ELSE [i \in 1..Len(reply.data[1]) |-> reply.data[1][i].id]))

\* the remote echoed two rows and insert returned their two ids in order
C6_Witness ==
    /\ called.op = "insert"
    /\ reply.data = Some(<<Row1, Row2>>)
    /\ outcome = Return(JsArray(<<11, 12>>))

\* C7: hasTable never fails; it returns true exactly when the count-select
\* completes without an error, and false for an error returned or thrown.
C7_HasTableIffNoError ==
    called.op = "hasTable" =>
        /\ Len(sent) = 1
        /\ outcome = Return(JsBool(reply.kind = "resolved" /\ reply.error = None))

\* a permission error thrown on an existing table reads as "does not exist"
C7_Witness ==
    /\ called.op = "hasTable"
    /\ called.args = <<"users">>
    /\ reply.kind = "rejected"
    /\ reply.error = Some("permission denied")
    /\ outcome = Return(JsBool(FALSE))

\* C8: raw("SELECT 1") returns [{"1": 1}], raw of any other string returns the
\* unsupported placeholder, and neither sends a remote request.
C8_RawSelect1Only ==
    called.op = "raw" =>
        /\ sent = <<>>
        /\ outcome.kind = "return"
        /\ outcome.value.type = "array"
        /\ Len(outcome.value.items) = 1
        /\ IF called.args[1] = "SELECT 1"
           THEN outcome.value.items[1] = ("1" :> 1)
           ELSE outcome.value.items[1] =
                    [message |-> "Raw SQL queries are not directly supported with Supabase"]

\* a near miss of the special string gets the placeholder
C8_Witness ==
    /\ called.op = "raw"
    /\ called.args = <<"SELECT 1;">>
    /\ outcome = Return(Unsupported)
    /\ sent = <<>>

C10_AnyTerminalCarriesPredicates ==
    /\ _wheres = calls.wheres
    /\ _orders = calls.orders
    /\ _offset = calls.offset
    /\ _limit = IF calls.first THEN Some(1) ELSE calls.limit
    /\ (called.op \in TerminalOps /\ calls.executed = "again") =>
           sent[1].eq = calls.wheres

\* C10 (amended): no terminal call resets the builder, first() changing only
\* the limit, to 1; so a second select, await, first, update or delete
\* carries every predicate accumulated so far and, after first(), a read
\* carries limit 1.  An insert never carries predicates.
C10_TerminalKeepsBuilder ==
    /\ _wheres = calls.wheres
    /\ _orders = calls.orders
    /\ _offset = calls.offset
    /\ _limit = IF calls.first THEN Some(1) ELSE calls.limit
    /\ (called.op \in TerminalOps \ {"insert"} /\ calls.executed = "again") =>
           sent[1].eq = calls.wheres
    /\ (called.op \in ReadOps /\ calls.first) => sent[1].limit = <<1>>
    /\ called.op = "insert" => sent[1].eq = <<>>

\* after first(), a delete on the same builder still carries both predicates
C10_Witness ==
    /\ called.op = "delete"
    /\ calls.executed = "again"
    /\ calls.first
    /\ Len(calls.wheres) = 2
    /\ sent[1].eq = calls.wheres
    /\ _limit = Some(1)

====
